---- MODULE Spec2Model ----
(***************************************************************************)
(* Motion-triggered recorder (src/main.py).                                *)
(*                                                                         *)
(* Two threads share one CircularBufferOutput:                             *)
(*   - the driver loop (main thread, lines 99-167): capture, difference,   *)
(*     debounce, start/stop recording, cleanup in the finally block;       *)
(*   - the encoder thread started by picam2.start_recording (line 90),     *)
(*     which calls CircularBufferOutput.outputframe for every encoded unit.*)
(*                                                                         *)
(* Time is counted in whole seconds: every reading of time.time() is a     *)
(* natural number, and the sleep at the end of a cycle makes the next      *)
(* reading strictly later (the clock is taken to be monotonic).  The        *)
(* durations keep their values in seconds.                                 *)
(*                                                                         *)
(* The loop is cut into steps wherever it touches what the encoder thread  *)
(* reads or writes (the deque, file, recording of the output) and wherever *)
(* an exception between two statements changes what the finally block     *)
(* finds; statements that only touch the loop's own variables share a step.*)
(***************************************************************************)
EXTENDS Integers, Sequences, FiniteSets

VARIABLES
  pc,                     \* position of the driver loop
  exiting,                \* an exception left the while loop (finally block runs)
  current_time,           \* last reading of time.time() (line 121)
  motion_frame,           \* this cycle's downscaled greyscale frame (lines 102-110)
  last_frame,             \* the reference frame (lines 113-114, 155); NoFrame before
  first_cycle,            \* history: no cycle of the loop has completed yet
  durations,              \* MOTION_BUFFER_DURATION and cooldown_duration (lines 15, 21)
  motion_detected,
  recording,
  motion_end_time,
  motion_buffer_end_time,
  cooldown_end_time,
  frames,                 \* CircularBufferOutput.frames (the deque)
  cb_recording,           \* CircularBufferOutput.recording
  file,                   \* CircularBufferOutput.file: a handle of fs, or None
  last_keyframe_index,    \* local of start_recording
  deque_mutated,          \* the deque changed while start_recording iterates it
  fs,                     \* every handle open() returned: path, open?, bytes written
  epc,                    \* position of the encoder thread inside outputframe
  cur,                    \* the unit outputframe is handling
  delivered,              \* number of units the encoder has delivered
  last_ts,                \* timestamp of the last delivered unit
  camera,                 \* "recording", "stopped", "closed"
  open_failed,            \* history: open() raised in start_recording
  closed_at,              \* history: time of the cycle that last closed a session
  last_exceed,            \* history: last cycle outside cooldown with count > SENSITIVITY
  flush_log               \* history: the pre-roll flush of the running start_recording

vars == <<pc, exiting, current_time, motion_frame, last_frame, first_cycle, durations,
          motion_detected,
          recording, motion_end_time, motion_buffer_end_time, cooldown_end_time,
          frames, cb_recording, file, last_keyframe_index, deque_mutated, fs,
          epc, cur, delivered, last_ts, camera,
          open_failed, closed_at, last_exceed, flush_log>>

driver_vars == <<pc, exiting, current_time, motion_frame, last_frame, first_cycle,
                 durations,
                 motion_detected, recording, motion_end_time,
                 motion_buffer_end_time, cooldown_end_time>>

history_vars == <<open_failed, closed_at, last_exceed, flush_log>>

encoder_vars == <<epc, cur, delivered, last_ts>>

(***************************************************************************)
(* Program constants (seconds, pixels).                                    *)
(***************************************************************************)
PIXEL_DIFF_THRESHOLD == 25
SENSITIVITY == 300
MOTION_BUFFER_DURATION == 1
record_duration_after_motion == 10
pre_motion_recording_duration == 10
cooldown_duration == 5

(***************************************************************************)
(* Bounds of the model.                                                    *)
(***************************************************************************)
\* Capacity of the deque.  The program computes int(10 / 0.1) = 100 (line 37);
\* the model keeps the count-based eviction and scales the capacity down.
max_frames == 2
\* Units the encoder delivers in one run of Spec.
MaxUnits == 3
\* Last clock reading explored by Spec.
MaxTime == 14
\* Units the encoder delivers in one run of SpecLoop.
MaxLoopUnits == 1
\* Last clock reading explored by SpecLoop.
MaxLoopTime == 24
\* Longest time between two consecutive clock readings of the loop.
MaxStep == 2
\* Longest time between two encoded units (SpecBuffer).
MaxGap == 11
\* Last clock reading explored by SpecPixel.
MaxPixelTime == 2
\* Longest MOTION_BUFFER_DURATION and shortest cooldown_duration tried by SpecDriver.
MaxHold == 2
MinCooldown == 2

None == 0 - 1

(***************************************************************************)
(* Pure helpers, one per condition or expression of the source.            *)
(***************************************************************************)
\* Largest value of a uint8 pixel.
MaxIntensity == 2^8 - 1

Abs(x) == IF x < 0 THEN 0 - x ELSE x

\* A value stored in a signed 16-bit integer (numpy wraps, it does not raise).
AsInt16(x) == ((x + 2^15) % 2^16) - 2^15

\* the difference taken in the frame's own unsigned 8-bit type
PixelDeltaUint8(a, b) == (a - b) % 2^8

\* line 117, one pixel: np.abs(a.astype(np.int16) - b.astype(np.int16))
PixelDelta(a, b) == AsInt16(Abs(AsInt16(AsInt16(a) - AsInt16(b))))

\* A frame is cut into regions of uniform intensity, the frame being the tuple of
\* their intensities: region 1 covers exactly SENSITIVITY pixels, region 2 one
\* pixel; the pixels outside both never change.
RegionPixels == <<SENSITIVITY, 1>>

NoFrame == <<>>

\* line 118: np.sum(frame_delta > PIXEL_DIFF_THRESHOLD)
RECURSIVE SumChanged(_, _, _)
SumChanged(f, g, i) ==
  IF i > Len(f) THEN 0
  ELSE (IF PixelDelta(f[i], g[i]) > PIXEL_DIFF_THRESHOLD THEN RegionPixels[i] ELSE 0)
       + SumChanged(f, g, i + 1)

ChangedPixels(f, g) == SumChanged(f, g, 1)

\* the reference seeded with an all-black frame instead of the first frame
SeedBlack(f) == [i \in 1..Len(f) |-> 0]

\* line 114: last_frame = motion_frame
SeedFrame(f) == f

\* Frames the camera delivers: a dark scene and a bright one (Spec, SpecLoop);
\* every combination of dark and bright regions (SpecDriver); every intensity of
\* region 1 (SpecPixel).
Scenes == {<<0, 0>>, <<MaxIntensity, MaxIntensity>>}
RegionScenes == {<<a, b>> : a \in {0, MaxIntensity}, b \in {0, MaxIntensity}}
PixelScenes == {<<a, 0>> : a \in 0..MaxIntensity}

\* lines 15, 21 as the program sets them
ProgramDurations == [hold |-> MOTION_BUFFER_DURATION, cooldown |-> cooldown_duration]

\* the cooldown test measured from the wrong end: a cooldown of no length
InCooldownZeroLength(t, cet) == t < cet - cooldown_duration

\* line 122: current_time < cooldown_end_time
InCooldown(t, cet) == t < cet

\* line 127: changed_pixels > SENSITIVITY
ExceedsSensitivity(c) == c > SENSITIVITY

\* line 132: current_time > motion_buffer_end_time
HoldExpired(t, mbet) == t > mbet

\* the start test without its motion_detected operand
MayStartWhenIdle(md, rec) == ~rec

\* the start test without its "not recording" guard
MayStartOnMotion(md, rec) == md

\* line 136: motion_detected and not recording
MayStart(md, rec) == md /\ ~rec

\* the stop test with its comparison inverted
MustStopBeforeDeadline(rec, t, met) == rec /\ t < met

\* the stop test that already fires at the deadline
MustStopAtDeadline(rec, t, met) == rec /\ t >= met

\* line 145: recording and current_time > motion_end_time
MustStop(rec, t, met) == rec /\ t > met

\* the cleanup test reading the output's flag instead of the loop's
FinallyStopsOnOutputFlag(rec, cbrec) == cbrec

\* line 164: if recording
FinallyStops(rec, cbrec) == rec

\* lines 52-55: the loop keeps the index (0-based) of the last keyframe seen, 0 if none
RECURSIVE ScanKeyframes(_, _, _)
ScanKeyframes(q, i, acc) ==
  IF i > Len(q) THEN acc
  ELSE ScanKeyframes(q, i + 1, IF q[i].keyframe THEN i - 1 ELSE acc)

\* the scan stopping at the first keyframe instead of keeping the last
FirstKeyframeIndex(q) ==
  LET K == {i \in 1..Len(q) : q[i].keyframe}
  IN IF K = {} THEN 0 ELSE (CHOOSE i \in K : \A j \in K : i <= j) - 1

\* the scan starting from the end of the buffer: nothing to flush without a keyframe
KeyframeIndexOrEnd(q) ==
  IF \E i \in 1..Len(q) : q[i].keyframe THEN ScanKeyframes(q, 1, 0) ELSE Len(q)

LastKeyframeIndex(q) == ScanKeyframes(q, 1, 0)

\* line 57: list(self.frames)[last_keyframe_index:]
FlushUnits(q, idx) == SubSeq(q, idx + 1, Len(q))

\* the eviction taking the newest unit (pop) instead of the oldest
EvictNewest(q) == SubSeq(q, 1, Len(q) - 1)

\* line 45: self.frames.popleft()
EvictOldest(q) == Tail(q)

\* line 44: len(self.frames) > self.max_frames
OverCapacity(q) == Len(q) > max_frames

Ids(q) == [i \in 1..Len(q) |-> q[i].id]

\* every session written to one fixed path
FixedPath(t) == 0

\* lines 138-139: motion_<YYYYmmdd_HHMMSS>.h264, one name per second of the clock
OutputPath(t) == t

OpenHandles == {h \in 1..Len(fs) : fs[h].open}

\* open(path, 'wb') truncates the file of that path
Truncated(path) ==
  [h \in 1..Len(fs) |->
     IF fs[h].path = path THEN [fs[h] EXCEPT !.data = <<>>] ELSE fs[h]]

NoFlush == [scanned |-> <<>>, held |-> <<>>, written |-> <<>>, state |-> "none"]

LoopPcs == {"loop", "open", "scan", "scanning", "flush", "setrec", "setend",
            "stop", "close", "clearfile", "cbrecfalse", "recfalse"}

(***************************************************************************)
(* Initial state: lines 33-40 (the output), 90 (camera started), 93-97.    *)
(***************************************************************************)
Start(d) ==
  /\ pc = "loop"
  /\ exiting = FALSE
  /\ current_time = 0
  /\ motion_frame = NoFrame
  /\ last_frame = NoFrame
  /\ first_cycle = TRUE
  /\ durations = d
  /\ motion_detected = FALSE
  /\ recording = FALSE
  /\ motion_end_time = None
  /\ motion_buffer_end_time = 0
  /\ cooldown_end_time = 0
  /\ frames = <<>>
  /\ cb_recording = FALSE
  /\ file = None
  /\ last_keyframe_index = 0
  /\ deque_mutated = FALSE
  /\ fs = <<>>
  /\ epc = "idle"
  /\ cur = None
  /\ delivered = 0
  /\ last_ts = 0
  /\ camera = "recording"
  /\ open_failed = FALSE
  /\ closed_at = 0
  /\ last_exceed = 0
  /\ flush_log = NoFlush

Init == Start(ProgramDurations)

\* line 118: the count of the cycle being run, read off the two frames it compares
changed_pixels ==
  IF motion_frame = NoFrame THEN 0 ELSE ChangedPixels(motion_frame, last_frame)

(***************************************************************************)
(* Driver loop.                                                            *)
(***************************************************************************)
\* lines 102-137: capture, seed last_frame on the first cycle, difference against
\* last_frame, read the clock, debounce, and test whether to start.  Nothing here
\* touches the output or can be seen by the encoder thread.
CaptureAndDebounce(horizon, scenes) ==
  /\ pc = "loop"
  /\ \E dt \in 1..MaxStep, f \in scenes :
       LET t   == current_time + dt
           ref == IF last_frame = NoFrame THEN SeedFrame(f) ELSE last_frame
           cp  == ChangedPixels(f, ref)
       IN /\ t <= horizon
          /\ current_time' = t
          /\ motion_frame' = f
          /\ last_frame' = ref
          /\ IF InCooldown(t, cooldown_end_time)
             THEN /\ motion_detected' = FALSE
                  /\ UNCHANGED <<motion_buffer_end_time, last_exceed>>
             ELSE IF ExceedsSensitivity(cp)
             THEN /\ motion_buffer_end_time' = t + durations.hold
                  /\ motion_detected' = TRUE
                  /\ last_exceed' = t
             ELSE IF HoldExpired(t, motion_buffer_end_time)
             THEN /\ motion_detected' = FALSE
                  /\ UNCHANGED <<motion_buffer_end_time, last_exceed>>
             ELSE UNCHANGED <<motion_detected, motion_buffer_end_time, last_exceed>>
  /\ IF MayStart(motion_detected', recording)
     THEN recording' = TRUE /\ pc' = "open"
     ELSE recording' = recording /\ pc' = "stop"
  /\ UNCHANGED <<exiting, first_cycle, durations, motion_end_time, cooldown_end_time,
                 frames, cb_recording, file, last_keyframe_index, deque_mutated, fs,
                 encoder_vars, camera, open_failed, closed_at, flush_log>>

\* lines 138-141, 50: the path is named after the clock's second; open() returns a
\* handle or raises, and nothing in the loop catches what it raises.
OpenFile ==
  /\ pc = "open"
  /\ \E ok \in BOOLEAN :
       IF ok
       THEN /\ fs' = Append(Truncated(OutputPath(current_time)),
                            [path |-> OutputPath(current_time), open |-> TRUE,
                             data |-> <<>>])
            /\ file' = Len(fs) + 1
            /\ pc' = "scan"
            /\ UNCHANGED <<exiting, open_failed>>
       ELSE /\ exiting' = TRUE
            /\ open_failed' = TRUE
            /\ pc' = "finally"
            /\ UNCHANGED <<fs, file>>
  /\ UNCHANGED <<current_time, motion_frame, last_frame, first_cycle,
                 durations, motion_detected, recording,
                 motion_end_time, motion_buffer_end_time, cooldown_end_time,
                 frames, cb_recording, last_keyframe_index, deque_mutated,
                 encoder_vars, camera, closed_at, last_exceed, flush_log>>

\* lines 52-53: the iteration over the deque begins
ScanBegin ==
  /\ pc = "scan"
  /\ last_keyframe_index' = 0
  /\ deque_mutated' = FALSE
  /\ pc' = "scanning"
  /\ UNCHANGED <<exiting, current_time, motion_frame, last_frame, first_cycle,
                 durations, motion_detected,
                 recording, motion_end_time, motion_buffer_end_time, cooldown_end_time,
                 frames, cb_recording, file, fs, encoder_vars, camera, history_vars>>

\* lines 53-55: the iteration ends; a deque changed while it is iterated raises
\* RuntimeError, which leaves the loop.
ScanEnd ==
  /\ pc = "scanning"
  /\ IF deque_mutated
     THEN /\ exiting' = TRUE
          /\ pc' = "finally"
          /\ UNCHANGED <<last_keyframe_index, flush_log>>
     ELSE /\ last_keyframe_index' = LastKeyframeIndex(frames)
          /\ flush_log' = [NoFlush EXCEPT !.scanned = frames, !.state = "scanned"]
          /\ pc' = "flush"
          /\ UNCHANGED exiting
  /\ UNCHANGED <<current_time, motion_frame, last_frame, first_cycle,
                 durations, motion_detected,
                 recording, motion_end_time, motion_buffer_end_time, cooldown_end_time,
                 frames, cb_recording, file, deque_mutated, fs, encoder_vars, camera,
                 open_failed, closed_at, last_exceed>>

\* lines 57-58: the units from last_keyframe_index on are written to the file
Flush ==
  /\ pc = "flush"
  /\ LET w == FlushUnits(frames, last_keyframe_index)
     IN /\ fs' = [fs EXCEPT ![file].data = @ \o Ids(w)]
        /\ flush_log' = [flush_log EXCEPT !.held = frames, !.written = w,
                                          !.state = "flushed"]
  /\ pc' = "setrec"
  /\ UNCHANGED <<exiting, current_time, motion_frame, last_frame, first_cycle,
                 durations, motion_detected,
                 recording, motion_end_time, motion_buffer_end_time, cooldown_end_time,
                 frames, cb_recording, file, last_keyframe_index, deque_mutated,
                 encoder_vars, camera, open_failed, closed_at, last_exceed>>

\* line 59
SetRecording ==
  /\ pc = "setrec"
  /\ cb_recording' = TRUE
  /\ flush_log' = NoFlush
  /\ pc' = "setend"
  /\ UNCHANGED <<exiting, current_time, motion_frame, last_frame, first_cycle,
                 durations, motion_detected,
                 recording, motion_end_time, motion_buffer_end_time, cooldown_end_time,
                 frames, file, last_keyframe_index, deque_mutated, fs,
                 encoder_vars, camera, open_failed, closed_at, last_exceed>>

\* line 142
SetMotionEnd ==
  /\ pc = "setend"
  /\ motion_end_time' = current_time + record_duration_after_motion
  /\ pc' = "stop"
  /\ UNCHANGED <<exiting, current_time, motion_frame, last_frame, first_cycle,
                 durations, motion_detected,
                 recording, motion_buffer_end_time, cooldown_end_time,
                 frames, cb_recording, file, last_keyframe_index, deque_mutated, fs,
                 encoder_vars, camera, history_vars>>

\* lines 145, 155-158: the stop test; a cycle that does not stop goes on to update
\* last_frame and sleep
StopCheck ==
  /\ pc = "stop"
  /\ IF MustStop(recording, current_time, motion_end_time)
     THEN pc' = "close" /\ UNCHANGED <<last_frame, first_cycle>>
     ELSE pc' = "loop" /\ last_frame' = motion_frame /\ first_cycle' = FALSE
  /\ UNCHANGED <<exiting, current_time, motion_frame, durations, motion_detected,
                 recording, motion_end_time, motion_buffer_end_time, cooldown_end_time,
                 frames, cb_recording, file, last_keyframe_index, deque_mutated, fs,
                 encoder_vars, camera, history_vars>>

\* lines 62-63: stop_recording, called from the loop (147) or from finally (165)
CloseFile ==
  /\ pc = "close"
  /\ IF file # None
     THEN fs' = [fs EXCEPT ![file].open = FALSE] /\ pc' = "clearfile"
     ELSE fs' = fs /\ pc' = "cbrecfalse"
  /\ UNCHANGED <<exiting, current_time, motion_frame, last_frame, first_cycle,
                 durations, motion_detected,
                 recording, motion_end_time, motion_buffer_end_time, cooldown_end_time,
                 frames, cb_recording, file, last_keyframe_index, deque_mutated,
                 encoder_vars, camera, history_vars>>

\* line 64
ClearFile ==
  /\ pc = "clearfile"
  /\ file' = None
  /\ pc' = "cbrecfalse"
  /\ UNCHANGED <<exiting, current_time, motion_frame, last_frame, first_cycle,
                 durations, motion_detected,
                 recording, motion_end_time, motion_buffer_end_time, cooldown_end_time,
                 frames, cb_recording, last_keyframe_index, deque_mutated, fs,
                 encoder_vars, camera, history_vars>>

\* line 65, and the return to the caller
ClearRecording ==
  /\ pc = "cbrecfalse"
  /\ cb_recording' = FALSE
  /\ pc' = IF exiting THEN "camstop" ELSE "recfalse"
  /\ UNCHANGED <<exiting, current_time, motion_frame, last_frame, first_cycle,
                 durations, motion_detected,
                 recording, motion_end_time, motion_buffer_end_time, cooldown_end_time,
                 frames, file, last_keyframe_index, deque_mutated, fs,
                 encoder_vars, camera, history_vars>>

\* lines 148-158: back in the loop after stop_recording: the flag, the cooldown,
\* then last_frame and the sleep
AfterStop ==
  /\ pc = "recfalse"
  /\ recording' = FALSE
  /\ cooldown_end_time' = current_time + durations.cooldown
  /\ closed_at' = current_time
  /\ last_frame' = motion_frame
  /\ first_cycle' = FALSE
  /\ pc' = "loop"
  /\ UNCHANGED <<exiting, current_time, motion_frame, durations, motion_detected,
                 motion_end_time, motion_buffer_end_time,
                 frames, cb_recording, file, last_keyframe_index, deque_mutated, fs,
                 encoder_vars, camera, open_failed, last_exceed, flush_log>>

\* lines 99, 160-162: KeyboardInterrupt, or any error, raised anywhere in a cycle
Interrupt ==
  /\ pc \in LoopPcs
  /\ ~exiting
  /\ exiting' = TRUE
  /\ pc' = "finally"
  /\ UNCHANGED <<current_time, motion_frame, last_frame, first_cycle,
                 durations, motion_detected,
                 recording, motion_end_time, motion_buffer_end_time, cooldown_end_time,
                 frames, cb_recording, file, last_keyframe_index, deque_mutated, fs,
                 encoder_vars, camera, history_vars>>

\* lines 164-165
Finally ==
  /\ pc = "finally"
  /\ pc' = IF FinallyStops(recording, cb_recording) THEN "close" ELSE "camstop"
  /\ UNCHANGED <<exiting, current_time, motion_frame, last_frame, first_cycle,
                 durations, motion_detected,
                 recording, motion_end_time, motion_buffer_end_time, cooldown_end_time,
                 frames, cb_recording, file, last_keyframe_index, deque_mutated, fs,
                 encoder_vars, camera, history_vars>>

\* line 166: picam2.stop_recording() stops the encoder and joins its thread
CameraStop ==
  /\ pc = "camstop"
  /\ epc \in {"idle", "crashed"}
  /\ camera' = "stopped"
  /\ pc' = "camclose"
  /\ UNCHANGED <<exiting, current_time, motion_frame, last_frame, first_cycle,
                 durations, motion_detected,
                 recording, motion_end_time, motion_buffer_end_time, cooldown_end_time,
                 frames, cb_recording, file, last_keyframe_index, deque_mutated, fs,
                 encoder_vars, history_vars>>

\* line 167
CameraClose ==
  /\ pc = "camclose"
  /\ camera' = "closed"
  /\ pc' = "done"
  /\ UNCHANGED <<exiting, current_time, motion_frame, last_frame, first_cycle,
                 durations, motion_detected,
                 recording, motion_end_time, motion_buffer_end_time, cooldown_end_time,
                 frames, cb_recording, file, last_keyframe_index, deque_mutated, fs,
                 encoder_vars, history_vars>>

(***************************************************************************)
(* Encoder thread: CircularBufferOutput.outputframe, lines 42-47.          *)
(***************************************************************************)
\* line 43
OutputFrameAppend(kf, ts, budget) ==
  /\ camera = "recording"
  /\ epc = "idle"
  /\ delivered < budget
  /\ LET u == [id |-> delivered + 1, keyframe |-> kf, timestamp |-> ts]
     IN /\ frames' = Append(frames, u)
        /\ cur' = u.id
  /\ delivered' = delivered + 1
  /\ last_ts' = ts
  /\ deque_mutated' = (deque_mutated \/ pc = "scanning")
  /\ epc' = "evict"
  /\ UNCHANGED <<driver_vars, cb_recording, file, last_keyframe_index, fs, camera,
                 history_vars>>

\* lines 44-46: the eviction, then the test that decides whether the unit is written.
\* The eviction touches the deque alone and the test reads recording and file alone.
OutputFrameEvict ==
  /\ epc = "evict"
  /\ IF OverCapacity(frames)
     THEN /\ frames' = EvictOldest(frames)
          /\ deque_mutated' = (deque_mutated \/ pc = "scanning")
     ELSE UNCHANGED <<frames, deque_mutated>>
  /\ IF cb_recording /\ file # None
     THEN epc' = "write" /\ cur' = cur
     ELSE epc' = "idle" /\ cur' = None
  /\ UNCHANGED <<driver_vars, cb_recording, file, last_keyframe_index, fs, camera,
                 delivered, last_ts, history_vars>>

\* line 47: self.file is read again; None or a closed file raises in the encoder thread
OutputFrameWrite ==
  /\ epc = "write"
  /\ IF file = None \/ ~fs[file].open
     THEN epc' = "crashed" /\ fs' = fs
     ELSE epc' = "idle" /\ fs' = [fs EXCEPT ![file].data = Append(@, cur)]
  /\ cur' = None
  /\ UNCHANGED <<driver_vars, frames, cb_recording, file, last_keyframe_index,
                 deque_mutated, camera, delivered, last_ts, history_vars>>

Driver(horizon, scenes) ==
  \/ CaptureAndDebounce(horizon, scenes) \/ OpenFile \/ ScanBegin \/ ScanEnd \/ Flush
  \/ SetRecording \/ SetMotionEnd \/ StopCheck \/ CloseFile \/ ClearFile
  \/ ClearRecording \/ AfterStop \/ Interrupt \/ Finally
  \/ CameraStop \/ CameraClose

\* The encoder's timestamps are not tracked here (outputframe never reads them).
Encoder(budget) ==
  \/ \E kf \in BOOLEAN : OutputFrameAppend(kf, None, budget)
  \/ OutputFrameEvict
  \/ OutputFrameWrite

\* Spec: the whole program, with enough units to fill and overflow the buffer
\* under every interleaving of the two threads, up to the end of a first session.
Next == Driver(MaxTime, Scenes) \/ Encoder(MaxUnits)

Spec == Init /\ [][Next]_vars

\* SpecLoop: the whole program over a longer run (a session, its cooldown, and the
\* session after it), with fewer units delivered by the encoder.
NextLoop == Driver(MaxLoopTime, Scenes) \/ Encoder(MaxLoopUnits)

SpecLoop == Init /\ [][NextLoop]_vars

(***************************************************************************)
(* SpecBuffer: the encoder alone feeding the pre-roll buffer, with the     *)
(* timestamp of every unit tracked; units arrive 1..MaxGap seconds apart.  *)
(***************************************************************************)
EncoderTimed ==
  \/ \E kf \in BOOLEAN, gap \in 1..MaxGap :
       OutputFrameAppend(kf, last_ts + gap, MaxUnits)
  \/ OutputFrameEvict

SpecBuffer == Init /\ [][EncoderTimed]_vars

(***************************************************************************)
(* SpecDriver: the driver loop alone (the encoder delivers nothing), with  *)
(* every combination of dark and bright regions as frames, and with        *)
(* MOTION_BUFFER_DURATION and cooldown_duration set to other values than   *)
(* the program's as well.                                                  *)
(***************************************************************************)
DurationChoices ==
  {[hold |-> h, cooldown |-> c] : h \in {MOTION_BUFFER_DURATION, MaxHold},
                                  c \in {MinCooldown, cooldown_duration}}

InitDriver == \E d \in DurationChoices : Start(d)

NextDriver == Driver(MaxLoopTime, RegionScenes)

SpecDriver == InitDriver /\ [][NextDriver]_vars

(***************************************************************************)
(* SpecPixel: the differencing of the first cycles, with region 1 of the   *)
(* frame taking every 8-bit intensity.  A change of region 1 alone never   *)
(* exceeds SENSITIVITY, so no cycle goes on to start a recording.          *)
(***************************************************************************)
NextPixel == CaptureAndDebounce(MaxPixelTime, PixelScenes) \/ StopCheck

SpecPixel == Init /\ [][NextPixel]_vars

(***************************************************************************)
(* Claims.                                                                 *)
(***************************************************************************)
SessionOpen == OpenHandles # {}

\* The cycle being run started inside the cooldown that followed the last close.
InCooldownAfterClose ==
  /\ closed_at > 0
  /\ closed_at < current_time
  /\ current_time < closed_at + cooldown_duration

\* 1-based position of the most recent keyframe of q (q holds one)
MostRecentKeyframe(q) ==
  CHOOSE i \in 1..Len(q) : q[i].keyframe /\ \A j \in (i + 1)..Len(q) : ~q[j].keyframe

HasKeyframe(q) == \E i \in 1..Len(q) : q[i].keyframe

\* C1: the loop closes a session only on a cycle where current_time > motion_end_time
\* and motion_detected is false; it never closes one while motion_detected is true.
\* (pc = "clearfile" outside the finally block: the loop has just closed the file.)
C1_ClosedOnlyWhenMotionCeased ==
  (pc = "clearfile" /\ ~exiting) =>
    (current_time > motion_end_time /\ ~motion_detected)

\* C2: on every cycle that is recording with motion_detected true, once the start
\* step of the cycle is over, motion_end_time = current_time + record_duration_after_motion.
C2_ExtendedOnEveryMotionCycle ==
  (pc = "stop" /\ recording /\ motion_detected) =>
    motion_end_time = current_time + record_duration_after_motion

\* C3: at most one output file is open in every reachable state, and start_recording
\* is never entered while a file opened earlier is still open.
C3_AtMostOneOpenFile ==
  /\ Cardinality(OpenHandles) <= 1
  /\ pc = "open" => OpenHandles = {}

\* C3 witness: start_recording has opened a second file, the first session's file
\* having been closed before.
C3_Witness ==
  /\ pc = "scan"
  /\ Len(fs) = 2
  /\ ~fs[1].open
  /\ fs[2].open

\* C4: when open() fails, the controller stays idle (recording flag false, no
\* session) and the loop goes on to its next cycle.
C4_OpenFailureKeepsLoopIdle ==
  open_failed => (~recording /\ ~SessionOpen /\ ~exiting /\ pc \in LoopPcs)

\* C5: on every exit path, no output file is open once the finally block reaches
\* the camera: the file is closed before the camera is stopped and closed.
C5_FilesClosedBeforeCameraReleased ==
  (pc \in {"camstop", "camclose", "done"} \/ camera # "recording") => ~SessionOpen

\* C5 witness: the loop was left inside start_recording, after open() and before the
\* output's own flag was set, and the run ended with that file closed.
C5_Witness ==
  /\ pc = "done"
  /\ recording
  /\ motion_end_time = None
  /\ Len(fs) = 1
  /\ ~fs[1].open

\* C6: on every cycle that starts after a close and less than cooldown_duration
\* after it, motion_detected is false whatever the count, and no session is opened.
C6_CooldownSuppressesMotion ==
  InCooldownAfterClose =>
    (~motion_detected /\ ~recording /\ ~SessionOpen /\ file = None)

\* C6 witness: the last cycle of a cooldown, with a count above SENSITIVITY, has
\* been debounced.
C6_Witness ==
  /\ InCooldownAfterClose
  /\ current_time = closed_at + cooldown_duration - 1
  /\ pc = "stop"
  /\ changed_pixels > SENSITIVITY

\* C7: motion_detected is true on every cycle within MOTION_BUFFER_DURATION after
\* the last cycle whose count exceeded SENSITIVITY, and false during cooldown.
C7_HeldAfterLastExceed ==
  /\ (last_exceed > 0 /\ current_time <= last_exceed + MOTION_BUFFER_DURATION)
       => motion_detected
  /\ InCooldownAfterClose => ~motion_detected

C9_BufferSpanWithinWindow ==
  (epc = "idle" /\ Len(frames) >= 1) =>
    frames[Len(frames)].timestamp - frames[1].timestamp <= pre_motion_recording_duration

\* C10: the buffer is the run of the most recently delivered units, in arrival
\* order with none skipped, recording or not; only the oldest are evicted.
C10_BufferIsRecentRun ==
  /\ \A i \in 1..Len(frames) : frames[i].id = delivered - Len(frames) + i
  /\ Len(frames) <= max_frames + 1
  /\ Len(frames) >= (IF delivered < max_frames THEN delivered ELSE max_frames)

\* C10 witness: a unit delivered while recording was written to the file, is the
\* newest of a full buffer, and older units have been evicted.
C10_Witness ==
  /\ cb_recording
  /\ file # None
  /\ epc = "idle"
  /\ delivered > max_frames
  /\ Len(frames) = max_frames
  /\ fs[file].data # <<>>
  /\ fs[file].data[Len(fs[file].data)] = delivered
  /\ frames[Len(frames)].id = delivered

\* C11: a file that stop_recording has closed is never changed again: no step of
\* either thread writes to it or truncates it, and no handle open after the step
\* has its path.
C11_ClosedFileNeverTouched ==
  [][\A h \in 1..Len(fs) :
       ~fs[h].open =>
         /\ fs'[h] = fs[h]
         /\ \A g \in 1..Len(fs') : (g # h /\ fs'[g].open) => fs'[g].path # fs[h].path]_vars

\* a second session is being written after the first file was closed, and the
\* encoder had a write in flight when that file was closed
C11_Witness ==
  /\ Len(fs) = 2
  /\ ~fs[1].open /\ fs[1].data # <<>>
  /\ fs[2].open /\ fs[2].data # <<>>
  /\ epc = "crashed"

\* The run has had one session, and no count has exceeded SENSITIVITY since the
\* cycle that opened it.
SoleTrigger == Len(fs) = 1 /\ last_exceed = fs[1].path

ClosingPcs == {"close", "clearfile", "cbrecfalse", "recfalse"}

\* C12 as stated: after a single trigger the cooldown ends exactly
\* record_duration_after_motion + cooldown_duration after the trigger.
C12_CooldownEndsAtFifteen ==
  (SoleTrigger /\ closed_at > 0) =>
    cooldown_end_time = last_exceed + record_duration_after_motion + cooldown_duration

\* C12, amended: after a single trigger the session stays open through every
\* cycle read at or before trigger + record_duration_after_motion, is closed on the
\* first cycle read after it, with motion inactive, and the cooldown ends
\* cooldown_duration after the reading of that closing cycle.
C12_ClosesOnFirstCycleAfterDeadline ==
  SoleTrigger =>
    /\ motion_end_time \in {None, last_exceed + record_duration_after_motion}
    /\ (pc = "loop" /\ recording) => current_time <= motion_end_time
    /\ (pc \in ClosingPcs /\ ~exiting) =>
         (current_time > motion_end_time /\ ~motion_detected)
    /\ closed_at > 0 =>
         /\ closed_at > motion_end_time
         /\ cooldown_end_time = closed_at + cooldown_duration

\* the only session was closed by the loop and a later cycle is running
C12_Witness ==
  /\ SoleTrigger
  /\ closed_at > 0
  /\ current_time > closed_at
  /\ pc = "stop"

\* A step of the driver that belongs to a cycle run while idle (not recording, the
\* cooldown expired at the cycle's clock reading) on which motion_detected is false:
\* the step that captures and debounces, or the step that runs the stop test.
IdleNoMotionStep ==
  \/ /\ pc = "loop" /\ pc' \notin {"loop", "finally"}
     /\ ~recording
     /\ current_time' >= cooldown_end_time
     /\ ~motion_detected'
  \/ /\ pc = "stop" /\ pc' \notin {"stop", "finally"}
     /\ ~recording
     /\ current_time >= cooldown_end_time
     /\ ~motion_detected

\* C13: a cycle run while idle with no motion active changes none of recording,
\* the output's file and flag, the files, motion_end_time, cooldown_end_time and
\* motion_buffer_end_time, and neither opens nor closes a file.
C13_IdleCycleIsNoOp ==
  [][IdleNoMotionStep =>
       /\ pc' \in {"stop", "loop"}
       /\ UNCHANGED <<recording, file, cb_recording, fs, motion_end_time,
                      cooldown_end_time, motion_buffer_end_time>>]_vars

\* a session was closed, its cooldown expired more than MaxStep ago and every cycle
\* since was idle with no motion
C13_Witness ==
  /\ closed_at > 0
  /\ Len(fs) = 1
  /\ ~exiting
  /\ pc = "loop"
  /\ ~recording /\ ~motion_detected
  /\ current_time > cooldown_end_time + MaxStep

\* The four rules of the debouncer, in order, for a cycle read at now with this
\* count: hold_until is the cycle's motion_buffer_end_time (rule 2 has already
\* moved it when the count exceeded the threshold).
DebouncerRules(count, now, cooldown_until, hold_until) ==
  IF now < cooldown_until THEN FALSE
  ELSE IF count > SENSITIVITY THEN TRUE
  ELSE IF now <= hold_until THEN TRUE
  ELSE FALSE

\* C14: on every cycle, for every choice of the two durations, the motion_detected
\* the loop has computed equals the result of the four debouncer rules.
C14_DebounceMatchesRules ==
  pc \in {"open", "stop"} =>
    motion_detected = DebouncerRules(changed_pixels, current_time,
                                     cooldown_end_time, motion_buffer_end_time)

\* C15: a flush whose scan found no keyframe in the buffer writes to the newly opened file
\* every unit the buffer holds, from the first to the last, in buffer order.
C15_FlushWholeBufferWithoutKeyframe ==
  (flush_log.state = "flushed" /\ ~HasKeyframe(flush_log.scanned)) =>
    /\ flush_log.written = flush_log.held
    /\ fs[Len(fs)].data = Ids(flush_log.held)

\* a full buffer without a keyframe was flushed
C15_Witness ==
  /\ flush_log.state = "flushed"
  /\ ~HasKeyframe(flush_log.scanned)
  /\ Len(flush_log.scanned) = max_frames
  /\ Len(fs[Len(fs)].data) = max_frames

\* C16: while the first cycle is run, whatever frame it captured, last_frame is that
\* frame, the count is 0, motion_detected is false and no recording has started;
\* and every cycle ends with last_frame set to the frame it captured.
C16_FirstCycleSeedsWithoutDetection ==
  /\ (first_cycle /\ motion_frame # NoFrame) =>
       /\ last_frame = motion_frame
       /\ changed_pixels = 0
       /\ ~motion_detected
       /\ ~recording
       /\ fs = <<>>
       /\ pc \in {"stop", "finally", "camstop", "camclose", "done"}
  /\ (pc = "loop" /\ ~first_cycle) => last_frame = motion_frame

\* the first cycle captured a frame that is bright everywhere
C16_Witness ==
  /\ first_cycle
  /\ pc = "stop"
  /\ motion_frame = <<MaxIntensity, MaxIntensity>>

\* |a - b| in the unbounded integers
TrueDifference(a, b) == IF a >= b THEN a - b ELSE b - a

\* number of pixels of the two frames whose true difference exceeds the threshold
TrueChangedPixels(f, g) ==
  (IF TrueDifference(f[1], g[1]) > PIXEL_DIFF_THRESHOLD THEN RegionPixels[1] ELSE 0)
  + (IF TrueDifference(f[2], g[2]) > PIXEL_DIFF_THRESHOLD THEN RegionPixels[2] ELSE 0)

\* C17: for the intensities of every pair of frames the loop compares, the value
\* line 117 computes for a pixel is the true absolute difference, and the count of
\* line 118 is the number of pixels whose true difference exceeds the threshold.
C17_DifferenceIsAbsolute ==
  motion_frame # NoFrame =>
    /\ \A i \in 1..Len(motion_frame) :
         PixelDelta(motion_frame[i], last_frame[i])
           = TrueDifference(motion_frame[i], last_frame[i])
    /\ changed_pixels = TrueChangedPixels(motion_frame, last_frame)

\* a black pixel is compared with a white reference: the subtraction is negative
C17_Witness ==
  /\ pc = "stop"
  /\ motion_frame[1] = 0
  /\ last_frame[1] = MaxIntensity

\* d is a run of consecutive units of the encoder's stream
Contiguous(d) == \A i \in 1..(Len(d) - 1) : d[i + 1] = d[i] + 1

\* C18: under every interleaving of the two threads no write of outputframe hits a
\* closed or cleared file, every file holds a run of consecutive units without gap
\* or repetition, and while a session records with the encoder between two units
\* the file ends with the last unit delivered.
C18_FileIsContiguousRun ==
  /\ epc # "crashed"
  /\ \A h \in 1..Len(fs) : Contiguous(fs[h].data)
  /\ (cb_recording /\ file # None /\ epc = "idle" /\ delivered > 0) =>
       (fs[file].data # <<>> /\ fs[file].data[Len(fs[file].data)] = delivered)

====
